---- MODULE Spec2Model ----
(***************************************************************************)
(* Virtual Lab: the progression engine (badge evaluation, XP and level)    *)
(* and the experiment pages' completion flows, over the hosted store's     *)
(* tables profiles, experiment_runs, badges and user_badges.               *)
(*                                                                         *)
(* One user is signed in from two browser tabs (Sessions).  Every await of *)
(* the source is a step boundary: an action is one synchronous segment of  *)
(* a handler, from the resumption of one store call to the issue of the    *)
(* next one.                                                               *)
(***************************************************************************)
EXTENDS Integers, Sequences, FiniteSets, TLC

\* ------------------------------------------------------------------ bounds

\* Rows the experiment_runs table may hold.
MaxRuns == 2
\* Store calls that may fail (error result, thrown error, null data) in one behaviour.
MaxFaults == 1
\* Longest attempt history drawn for an evaluation checked on its own.
MaxHistory == 2

\* ------------------------------------------------------------------ values

\* SQL NULL / JavaScript null in a numeric column (score, completed_at).
NULL == -1

\* The undefined value: an optional argument that was not passed.
undefined == <<>>

\* Text is a sequence of one-character strings.
s_Physics == <<"P","h","y","s","i","c","s">>
s_Chemistry == <<"C","h","e","m","i","s","t","r","y">>
s_physics == <<"p","h","y","s","i","c","s">>
s_chemistry == <<"c","h","e","m","i","s","t","r","y">>
s_ohms_law == <<"o","h","m","s"," ","l","a","w">>
s_titration == <<"t","i","t","r","a","t","i","o","n">>
s_OhmsLawLaboratory ==
    <<"O","h","m","'","s"," ","L","a","w"," ","L","a","b","o","r","a","t","o","r","y">>
s_AcidBaseTitration ==
    <<"A","c","i","d","-","B","a","s","e"," ","T","i","t","r","a","t","i","o","n">>
s_YoungsDoubleSlit ==
    <<"Y","o","u","n","g","'","s"," ","D","o","u","b","l","e"," ","S","l","i","t",
      " ","E","x","p","e","r","i","m","e","n","t">>
s_PreparationOfColloidalSolution ==
    <<"P","r","e","p","a","r","a","t","i","o","n"," ","o","f"," ",
      "C","o","l","l","o","i","d","a","l"," ","S","o","l","u","t","i","o","n">>

\* Names an experiment row can also carry: without the apostrophe, in capitals with
\* a run of spaces, with white space around and inside.
s_OhmsLawLaboratoryPlain ==
    <<"O","h","m","s"," ","L","a","w"," ","L","a","b","o","r","a","t","o","r","y">>
s_OHMS_LAW == <<"O","H","M","'","S"," "," "," ","L","A","W">>
s_TitrationPadded == <<" ","T","i","t","r","a","t","i","o","n","\t"," ","L","a","b"," ">>

\* The experiments table: the four seeded experiments that have a page modelled here,
\* and three rows added since, which have no page here.
experiments ==
    [ohms      |-> [name |-> s_OhmsLawLaboratory, subject |-> s_Physics,   xp_reward |-> 120],
     titration |-> [name |-> s_AcidBaseTitration, subject |-> s_Chemistry, xp_reward |-> 150],
     youngs    |-> [name |-> s_YoungsDoubleSlit,  subject |-> s_Physics,   xp_reward |-> 150],
     colloid   |-> [name |-> s_PreparationOfColloidalSolution, subject |-> s_Chemistry,
                    xp_reward |-> 150],
     ohms_plain |-> [name |-> s_OhmsLawLaboratoryPlain, subject |-> s_Physics,
                     xp_reward |-> 100],
     ohms_caps |-> [name |-> s_OHMS_LAW, subject |-> s_Physics, xp_reward |-> 100],
     titration_padded |-> [name |-> s_TitrationPadded, subject |-> s_Chemistry,
                           xp_reward |-> 100]]

ExperimentIds == DOMAIN experiments

\* ------------------------------------------------------------------ text

upperCase == <<"A","B","C","D","E","F","G","H","I","J","K","L","M",
               "N","O","P","Q","R","S","T","U","V","W","X","Y","Z">>
lowerCase == <<"a","b","c","d","e","f","g","h","i","j","k","l","m",
               "n","o","p","q","r","s","t","u","v","w","x","y","z">>

\* String.prototype.toLowerCase, one character.
toLowerCaseChar(ch) ==
    IF \E i \in 1..26 : upperCase[i] = ch
    THEN lowerCase[CHOOSE i \in 1..26 : upperCase[i] = ch]
    ELSE ch

toLowerCase(str) == [i \in 1..Len(str) |-> toLowerCaseChar(str[i])]

\* The character class ['"] of the first replace.
IsQuote(ch) == ch \in {"'", "\""}

\* The character class \s of the second replace.
IsSpace(ch) == ch \in {" ", "\t", "\n"}

\* .replace(/['"]/g, '')
RECURSIVE removeQuotes(_)
removeQuotes(str) ==
    IF str = <<>> THEN <<>>
    ELSE IF IsQuote(Head(str)) THEN removeQuotes(Tail(str))
    ELSE <<Head(str)>> \o removeQuotes(Tail(str))

\* .replace(/\s+/g, ' '): every maximal run of whitespace becomes one space.
RECURSIVE collapseSpaces(_)
collapseSpaces(str) ==
    IF str = <<>> THEN <<>>
    ELSE IF IsSpace(Head(str))
         THEN IF Len(str) > 1 /\ IsSpace(str[2])
              THEN collapseSpaces(Tail(str))
              ELSE <<" ">> \o collapseSpaces(Tail(str))
         ELSE <<Head(str)>> \o collapseSpaces(Tail(str))

\* String.prototype.trim
RECURSIVE trimStart(_)
trimStart(str) ==
    IF str # <<>> /\ IsSpace(Head(str)) THEN trimStart(Tail(str)) ELSE str

RECURSIVE trimEnd(_)
trimEnd(str) ==
    IF str # <<>> /\ IsSpace(str[Len(str)])
    THEN trimEnd(SubSeq(str, 1, Len(str) - 1))
    ELSE str

trim(str) == trimEnd(trimStart(str))

\* A normalisation that keeps the quotes.
normalizeKeepingQuotes(name) == trim(collapseSpaces(toLowerCase(name)))

normalizeExperimentName(name) ==
    trim(collapseSpaces(removeQuotes(toLowerCase(name))))

\* String.prototype.includes
includes(str, search) ==
    \E k \in 0..(Len(str) - Len(search)) :
        SubSeq(str, k + 1, k + Len(search)) = search

\* ------------------------------------------------------------------ criteria

\* criteria.f !== undefined
Has(criteria, f) == f \in DOMAIN criteria

\* A string field of the criteria used as a condition: present and not empty.
TruthyText(criteria, f) == Has(criteria, f) /\ criteria[f] # <<>>

\* A numeric field of the criteria used as a condition: present and not 0.
TruthyNumber(criteria, f) == Has(criteria, f) /\ criteria[f] # 0

\* (r.score || 0)
ScoreOrZero(r) == IF r.score = NULL THEN 0 ELSE r.score

\* Math.max(...runs.map(r => r.score || 0)) of a non-empty list
RECURSIVE MaxScore(_)
MaxScore(runs) ==
    IF Len(runs) = 1 THEN ScoreOrZero(runs[1])
    ELSE LET m == MaxScore(Tail(runs))
         IN IF ScoreOrZero(Head(runs)) >= m THEN ScoreOrZero(Head(runs)) ELSE m

\* completedRuns.filter(r => normalize(r.experiments.name).includes(normalize(experiment_type)))
TypeRuns(completedRuns, experiment_type) ==
    SelectSeq(completedRuns,
              LAMBDA r : includes(normalizeExperimentName(r.experiments.name),
                                  normalizeExperimentName(experiment_type)))

\* runs.filter(r => r.experiments.subject.toLowerCase() === subject.toLowerCase())
SubjectRuns(runs, subject) ==
    SelectSeq(runs, LAMBDA r : toLowerCase(r.experiments.subject) = toLowerCase(subject))

\* A count block that asks for more attempts than the count.
CheckExperimentsCompletedStrict(criteria, completedRuns) ==
    /\ Has(criteria, "experiments_completed")
    /\ Len(completedRuns) > criteria.experiments_completed

\* A count block that looks for a subject before it looks for a type.
CheckExperimentsCompletedSubjectFirst(criteria, completedRuns) ==
    IF ~Has(criteria, "experiments_completed") THEN FALSE
    ELSE IF TruthyText(criteria, "subject")
    THEN Len(SubjectRuns(completedRuns, criteria.subject)) >= criteria.experiments_completed
    ELSE IF TruthyText(criteria, "experiment_type")
    THEN Len(TypeRuns(completedRuns, criteria.experiment_type))
            >= criteria.experiments_completed
    ELSE Len(completedRuns) >= criteria.experiments_completed

\* The experiments_completed block: whether it sets shouldAward.
CheckExperimentsCompleted(criteria, completedRuns) ==
    IF ~Has(criteria, "experiments_completed") THEN FALSE
    ELSE IF TruthyText(criteria, "experiment_type")
    THEN LET typeRuns == TypeRuns(completedRuns, criteria.experiment_type)
         IN IF Has(criteria, "min_accuracy")
            THEN LET accurateRuns ==
                         SelectSeq(typeRuns,
                                   LAMBDA r : ScoreOrZero(r) >= criteria.min_accuracy)
                 IN Len(accurateRuns) >= criteria.experiments_completed
            ELSE Len(typeRuns) >= criteria.experiments_completed
    ELSE IF TruthyText(criteria, "subject")
    THEN Len(SubjectRuns(completedRuns, criteria.subject)) >= criteria.experiments_completed
    ELSE Len(completedRuns) >= criteria.experiments_completed

\* An experiment_type block that awards for every completion of the type.
CheckExperimentTypeOnCompletion(criteria, completedExperiment) ==
    /\ TruthyText(criteria, "experiment_type")
    /\ completedExperiment # undefined
    /\ includes(normalizeExperimentName(completedExperiment.experiments.name),
                normalizeExperimentName(criteria.experiment_type))
    /\ completedExperiment.status = "completed"

\* The experiment_type block, on the run passed as completedExperiment.
CheckExperimentType(criteria, completedExperiment) ==
    /\ TruthyText(criteria, "experiment_type")
    /\ completedExperiment # undefined
    /\ includes(normalizeExperimentName(completedExperiment.experiments.name),
                normalizeExperimentName(criteria.experiment_type))
    /\ completedExperiment.status = "completed"
    /\ \/ (Has(criteria, "completed") /\ criteria.completed = TRUE)
       \/ (~TruthyNumber(criteria, "accuracy_threshold")
           /\ ~TruthyNumber(criteria, "experiments_completed"))

\* The accuracy_threshold block.
CheckAccuracyThreshold(criteria, completedRuns) ==
    IF ~Has(criteria, "accuracy_threshold") THEN FALSE
    ELSE IF TruthyText(criteria, "experiment_type")
    THEN LET typeRuns == TypeRuns(completedRuns, criteria.experiment_type)
             maxAccuracy == IF Len(typeRuns) > 0 THEN MaxScore(typeRuns) ELSE 0
         IN maxAccuracy >= criteria.accuracy_threshold
    ELSE LET maxAccuracy == IF Len(completedRuns) > 0 THEN MaxScore(completedRuns) ELSE 0
         IN maxAccuracy >= criteria.accuracy_threshold

\* The xp_threshold block.
CheckXpThreshold(criteria, currentXP) ==
    Has(criteria, "xp_threshold") /\ currentXP >= criteria.xp_threshold

\* A subject + min_accuracy block that does not ask for an attempt of the subject.
CheckSubjectMasteryVacuous(criteria, completedRuns, allRuns) ==
    /\ TruthyText(criteria, "subject")
    /\ Has(criteria, "min_accuracy")
    /\ LET subjectRuns == SubjectRuns(completedRuns, criteria.subject)
           allSubjectRuns == SubjectRuns(allRuns, criteria.subject)
       IN /\ Len(subjectRuns) = Len(allSubjectRuns)
          /\ \A k \in 1..Len(subjectRuns) :
                 ScoreOrZero(subjectRuns[k]) >= criteria.min_accuracy

\* A subject + min_accuracy block that looks at the completed attempts only.
CheckSubjectMasteryOfCompleted(criteria, completedRuns, allRuns) ==
    /\ TruthyText(criteria, "subject")
    /\ Has(criteria, "min_accuracy")
    /\ LET subjectRuns == SubjectRuns(completedRuns, criteria.subject)
       IN /\ Len(subjectRuns) > 0
          /\ \A k \in 1..Len(subjectRuns) :
                 ScoreOrZero(subjectRuns[k]) >= criteria.min_accuracy

\* The subject + min_accuracy block.
CheckSubjectMastery(criteria, completedRuns, allRuns) ==
    /\ TruthyText(criteria, "subject")
    /\ Has(criteria, "min_accuracy")
    /\ LET subjectRuns == SubjectRuns(completedRuns, criteria.subject)
           allSubjectRuns == SubjectRuns(allRuns, criteria.subject)
       IN /\ Len(allSubjectRuns) > 0
          /\ Len(subjectRuns) = Len(allSubjectRuns)
          /\ \A k \in 1..Len(subjectRuns) :
                 ScoreOrZero(subjectRuns[k]) >= criteria.min_accuracy

\* A combination in which a count block, when the criteria have one, decides alone.
ShouldAwardCountFirst(criteria, currentXP, completedExperiment, allRuns) ==
    LET completedRuns == SelectSeq(allRuns, LAMBDA r : r.status = "completed")
    IN IF Has(criteria, "experiments_completed")
       THEN CheckExperimentsCompleted(criteria, completedRuns)
       ELSE \/ CheckExperimentType(criteria, completedExperiment)
            \/ CheckAccuracyThreshold(criteria, completedRuns)
            \/ CheckXpThreshold(criteria, currentXP)
            \/ CheckSubjectMastery(criteria, completedRuns, allRuns)

\* let shouldAward = false, then the five if-blocks in the order of the source; each
\* one can only set the flag.
ShouldAward(criteria, currentXP, completedExperiment, allRuns) ==
    LET completedRuns == SelectSeq(allRuns, LAMBDA r : r.status = "completed")
        a0 == FALSE
        a1 == IF CheckExperimentsCompleted(criteria, completedRuns) THEN TRUE ELSE a0
        a2 == IF CheckExperimentType(criteria, completedExperiment) THEN TRUE ELSE a1
        a3 == IF CheckAccuracyThreshold(criteria, completedRuns) THEN TRUE ELSE a2
        a4 == IF CheckXpThreshold(criteria, currentXP) THEN TRUE ELSE a3
        a5 == IF CheckSubjectMastery(criteria, completedRuns, allRuns) THEN TRUE ELSE a4
    IN a5

\* ------------------------------------------------------------------ state

Sessions == {"s1", "s2"}

VARIABLES
    badges,            \* table badges: the catalog, a sequence of rows in the order select('*') returns them
    user_badges,       \* table user_badges: per badge id, the number of rows (user, badge)
    experiment_runs,   \* table experiment_runs: row r is the attempt with id r
    profiles,          \* table profiles: the user's row, [xp_points, level]
    session,           \* per tab: the AuthContext profile state and the open page's React state
    eval,              \* per tab: the activation of checkAndAwardBadges, if any
    faults,            \* store calls that have failed so far
    clock              \* the time new Date() reads

vars == <<badges, user_badges, experiment_runs, profiles, session, eval, faults, clock>>

\* ------------------------------------------------------------------ the catalog

\* Seeded rows of the badges table.
FirstSteps == [id |-> 1, name |-> "First Steps", criteria |-> [experiments_completed |-> 1]]
OhmsLawBeginner ==
    [id |-> 2, name |-> "Ohm's Law Beginner",
     criteria |-> [experiment_type |-> s_ohms_law, completed |-> TRUE]]
AccuracyMaster == [id |-> 3, name |-> "Accuracy Master", criteria |-> [accuracy_threshold |-> 95]]
TitrationBeginner ==
    [id |-> 4, name |-> "Titration Beginner",
     criteria |-> [experiment_type |-> s_titration, completed |-> TRUE]]

\* Rows an administrator can add: the criteria column is free-form JSONB and nullable.
\* A count and an accuracy threshold on one definition.
CountAndAccuracy ==
    [id |-> 5, name |-> "Sharp Regular",
     criteria |-> [experiments_completed |-> 2, accuracy_threshold |-> 95]]
\* A row whose criteria column is NULL: the row has no criteria value.
NoCriteria == [id |-> 6, name |-> "Coming Soon"]
\* An XP threshold in reach of a level-2 user.
LevelTwo == [id |-> 7, name |-> "Level Two", criteria |-> [xp_threshold |-> 500]]

\* Seeded: every attempt of the subject completed at the accuracy.
ChemistryWizard ==
    [id |-> 8, name |-> "Chemistry Wizard",
     criteria |-> [subject |-> s_chemistry, min_accuracy |-> 90]]

\* Texts an administrator can write as experiment_type.
CriterionTexts ==
    { s_ohms_law,
      <<"o","h","m","'","s"," ","l","a","w">>,
      <<"O","H","M","S"," ","L","A","W">>,
      <<" "," ","o","h","m","s"," ","\t"," ","l","a","w"," ">>,
      <<"\"","O","h","m","s","\""," ","'","L","a","w","'">>,
      <<"o","h","m","s","l","a","w">>,
      s_titration,
      <<"T","i","t","r","a","t","i","o","n"," "," ","L","A","B">> }

\* One completed attempt of the type, whatever its score.
TypeCount(experiment_type) ==
    [id |-> 9, name |-> "Specialist",
     criteria |-> [experiment_type |-> experiment_type, experiments_completed |-> 1]]

\* The other seeded rows.
LabRegular == [id |-> 10, name |-> "Lab Regular", criteria |-> [experiments_completed |-> 10]]
ScienceStar == [id |-> 11, name |-> "Science Star", criteria |-> [xp_threshold |-> 5000]]
LabExpert == [id |-> 12, name |-> "Lab Expert", criteria |-> [experiments_completed |-> 50]]

\* Seeded with a count of 3: so many completed attempts of the type at the accuracy.
OhmsLawExpert(experiments_completed) ==
    [id |-> 15, name |-> "Ohm's Law Expert",
     criteria |-> [experiment_type |-> s_ohms_law,
                   experiments_completed |-> experiments_completed,
                   min_accuracy |-> 85]]

\* Counts an administrator can ask for: of a type with a subject beside it, of a
\* subject (seeded as Physics Explorer with a count of 5), of all attempts.
TypeAndSubjectCount(experiments_completed) ==
    [id |-> 16, name |-> "Titration Physicist",
     criteria |-> [experiment_type |-> s_titration, subject |-> s_physics,
                   experiments_completed |-> experiments_completed]]
PhysicsExplorer(experiments_completed) ==
    [id |-> 17, name |-> "Physics Explorer",
     criteria |-> [subject |-> s_physics, experiments_completed |-> experiments_completed]]
OverallCount(experiments_completed) ==
    [id |-> 18, name |-> "Regular",
     criteria |-> [experiments_completed |-> experiments_completed]]

\* Mastery of chemistry at an accuracy an administrator chooses.
ChemistryMastery(min_accuracy) ==
    [id |-> 19, name |-> "Chemistry Master",
     criteria |-> [subject |-> s_chemistry, min_accuracy |-> min_accuracy]]

\* Rows whose criteria value has none of the fields the evaluation reads: the empty
\* object, and an object with a field of another name.
EmptyCriteria == [id |-> 13, name |-> "Placeholder", criteria |-> <<>>]
UnknownCriteria == [id |-> 14, name |-> "Veteran", criteria |-> [min_level |-> 3]]

\* The rows the migration seeds, in its order.
SeededBadges ==
    <<FirstSteps, TitrationBeginner, AccuracyMaster, LabRegular, ScienceStar, LabExpert,
      ChemistryWizard>>

BadgeIds == 1..19

\* The seeded catalog, restricted to the modelled experiments.
SeedCatalog == <<FirstSteps, OhmsLawBeginner, AccuracyMaster>>

\* The catalog of the running application: the seeded rows and one added since.
AppCatalog == <<FirstSteps, OhmsLawBeginner, AccuracyMaster, LevelTwo>>

\* Catalogs an evaluation is checked against on its own.
Catalogs ==
    { SeedCatalog,
      <<FirstSteps, NoCriteria, AccuracyMaster>>,
      <<CountAndAccuracy, LevelTwo, TitrationBeginner>> }

IsNullCriteria(badge) == "criteria" \notin DOMAIN badge

\* ------------------------------------------------------------------ the store

\* experiment_runs joined with experiments (name, subject), as the select returns it.
JoinedRuns(runs) ==
    [r \in 1..Len(runs) |->
        [id |-> r,
         experiment_id |-> runs[r].experiment_id,
         status |-> runs[r].status,
         score |-> runs[r].score,
         experiments |-> [name |-> experiments[runs[r].experiment_id].name,
                          subject |-> experiments[runs[r].experiment_id].subject]]]

\* The insert into a user_badges table declared without UNIQUE (user_id, badge_id).
\* A write that replaces the user's rows by the new one.
InsertUserBadgeReplacing(rows, badge_id) ==
    [rows |-> [b \in DOMAIN rows |-> IF b = badge_id THEN 1 ELSE 0], conflict |-> FALSE]

InsertUserBadgeNoUnique(rows, badge_id) ==
    [rows |-> [rows EXCEPT ![badge_id] = @ + 1], conflict |-> FALSE]

\* insert into user_badges under UNIQUE (user_id, badge_id): the rows afterwards and
\* whether the store answered with the unique-violation error.
InsertUserBadge(rows, badge_id) ==
    IF rows[badge_id] > 0
    THEN [rows |-> rows, conflict |-> TRUE]
    ELSE [rows |-> [rows EXCEPT ![badge_id] = @ + 1], conflict |-> FALSE]

\* What a store call can answer besides its data: an error result, null data without
\* an error, or a rejected promise.
SelectOutcomes == {"ok", "error", "null", "throw"}
InsertOutcomes == {"ok", "error", "throw"}

\* A call may fail only while the budget of failures lasts.
MayAnswer(outcome) == outcome = "ok" \/ faults < MaxFaults
Count(outcome) == IF outcome = "ok" THEN faults ELSE faults + 1

\* ------------------------------------------------------------------ checkAndAwardBadges

\* No activation.  The fields from evaluated on record what the call did, for the
\* properties below: the definitions whose criteria it evaluated, the inserts it
\* issued, those answered with an error result, those that threw, whether a select
\* failed, what it wrote with console.error, whether every store call so far answered
\* with data, and the summary of the caller's previous call.
NoEval ==
    [pc |-> "idle", currentXP |-> 0, completedExperiment |-> undefined,
     earnedBadgeIds |-> {}, allRuns |-> <<>>, i |-> 0, awardedBadgeNames |-> <<>>,
     evaluated |-> {}, insertCalls |-> <<>>, insertFailed |-> {}, insertThrew |-> {},
     fetchFailed |-> FALSE, consoleErrors |-> {}, clean |-> TRUE, prev |-> <<>>]

\* The activation right after the call: awardedBadgeNames = [], inside try, the first
\* select issued.
StartEval(currentXP, completedExperiment, prev) ==
    [NoEval EXCEPT !.pc = "fetchBadges", !.currentXP = currentXP,
                   !.completedExperiment = completedExperiment, !.prev = prev]

\* What a finished call leaves for the comparison with the next one.
Summary(e) ==
    IF e.pc = "idle" THEN <<>>
    ELSE [currentXP |-> e.currentXP, completedExperiment |-> e.completedExperiment,
          clean |-> e.clean, awarded |-> Len(e.awardedBadgeNames)]

\* return awardedBadgeNames
Return(e) == [e EXCEPT !.pc = "returned"]

\* A function body without the try/catch: the error leaves the function.
CatchRethrows(e, cause) == [e EXCEPT !.pc = "threw"]

\* An error thrown inside the try block (a rejected store call, or a TypeError of the
\* loop body): the catch logs it, then the function returns what it has awarded so far.
Catch(e, cause) ==
    Return([e EXCEPT !.consoleErrors = @ \cup {<<"Error in checkAndAwardBadges", cause, 0>>}])

\* A skip that looks at the first definition of the catalog only.
AlreadyEarnedFirstOnly(e, badge) == badge.id \in e.earnedBadgeIds /\ badge.id = badges[1].id

\* A loop without the skip of earned badges.
AlreadyEarnedNever(e, badge) == FALSE

\* if (earnedBadgeIds.has(badge.id)) continue
AlreadyEarned(e, badge) == badge.id \in e.earnedBadgeIds

\* for (const badge of allBadges), from position k up to the next await: skips the
\* earned ones, evaluates the others, and stops at the first badge to insert, at the
\* end of the catalog, or at a thrown error (criteria.experiments_completed of a null
\* criteria).
RECURSIVE Loop(_, _)
Loop(e, k) ==
    IF k > Len(badges) THEN Return(e)
    ELSE LET badge == badges[k]
         IN IF AlreadyEarned(e, badge) THEN Loop(e, k + 1)
            ELSE IF IsNullCriteria(badge) THEN Catch(e, "TypeError")
            ELSE LET e1 == [e EXCEPT !.evaluated = @ \cup {badge.id}]
                 IN IF ShouldAward(badge.criteria, e.currentXP, e.completedExperiment,
                                   e.allRuns)
                    THEN [e1 EXCEPT !.pc = "insert", !.i = k,
                                    !.insertCalls = Append(@, badge.id)]
                    ELSE Loop(e1, k + 1)

\* An error result that is logged without the early return: the loop runs on what was
\* fetched so far.
FetchErrorGoesOn(e, what) ==
    Loop([e EXCEPT !.consoleErrors = @ \cup {<<what, "error", 0>>},
                   !.fetchFailed = TRUE, !.clean = FALSE], 1)

\* An error result of one of the three selects (for badges also null data): logged,
\* return awardedBadgeNames.
FetchError(e, what) ==
    Return([e EXCEPT !.consoleErrors = @ \cup {<<what, "error", 0>>},
                     !.fetchFailed = TRUE, !.clean = FALSE])

\* A select whose promise rejects.
FetchThrew(e) == Catch([e EXCEPT !.fetchFailed = TRUE, !.clean = FALSE], "throw")

\* The select on badges answers.
FetchBadges(s) ==
    /\ eval[s].pc = "fetchBadges"
    /\ \E outcome \in SelectOutcomes :
        /\ MayAnswer(outcome)
        /\ faults' = Count(outcome)
        /\ eval' = [eval EXCEPT ![s] =
                CASE outcome = "ok" -> [@ EXCEPT !.pc = "fetchUserBadges"]
                  [] outcome = "error" -> FetchError(@, "Error fetching badges")
                  [] outcome = "null" -> FetchError(@, "Error fetching badges")
                  [] outcome = "throw" -> FetchThrew(@)]
    /\ UNCHANGED <<badges, user_badges, experiment_runs, profiles, session, clock>>

\* The select on user_badges answers.
FetchUserBadges(s) ==
    /\ eval[s].pc = "fetchUserBadges"
    /\ \E outcome \in SelectOutcomes :
        /\ MayAnswer(outcome)
        /\ faults' = Count(outcome)
        /\ eval' = [eval EXCEPT ![s] =
                CASE outcome = "ok" ->
                        [@ EXCEPT !.pc = "fetchRuns",
                                  !.earnedBadgeIds = {b \in BadgeIds : user_badges[b] > 0}]
                  [] outcome = "null" ->
                        [@ EXCEPT !.pc = "fetchRuns", !.earnedBadgeIds = {},
                                  !.clean = FALSE]
                  [] outcome = "error" -> FetchError(@, "Error fetching user badges")
                  [] outcome = "throw" -> FetchThrew(@)]
    /\ UNCHANGED <<badges, user_badges, experiment_runs, profiles, session, clock>>

\* The select on experiment_runs answers; on data the loop over the catalog starts.
FetchRuns(s) ==
    /\ eval[s].pc = "fetchRuns"
    /\ \E outcome \in SelectOutcomes :
        /\ MayAnswer(outcome)
        /\ faults' = Count(outcome)
        /\ eval' = [eval EXCEPT ![s] =
                CASE outcome = "ok" ->
                        Loop([@ EXCEPT !.allRuns = JoinedRuns(experiment_runs)], 1)
                  [] outcome = "null" ->
                        Loop([@ EXCEPT !.allRuns = <<>>, !.clean = FALSE], 1)
                  [] outcome = "error" -> FetchError(@, "Error fetching experiment runs")
                  [] outcome = "throw" -> FetchThrew(@)]
    /\ UNCHANGED <<badges, user_badges, experiment_runs, profiles, session, clock>>

\* An insert whose answer is not looked at: the name is pushed (and the toast shown).
AfterInsertUnchecked(e, awardError) ==
    Loop([e EXCEPT !.awardedBadgeNames = Append(@, badges[e.i].name)], e.i + 1)

\* if (!awardError) push the name (and toast) else console.error; then the next badge.
AfterInsert(e, awardError) ==
    LET badge == badges[e.i]
    IN IF awardError = "none"
       THEN Loop([e EXCEPT !.awardedBadgeNames = Append(@, badge.name)], e.i + 1)
       ELSE Loop([e EXCEPT !.consoleErrors =
                               @ \cup {<<"[Badge Award] Error awarding badge", awardError,
                                         badge.id>>},
                           !.insertFailed = @ \cup {badge.id},
                           !.clean = FALSE],
                 e.i + 1)

\* The insert into user_badges answers.
InsertBadge(s) ==
    /\ eval[s].pc = "insert"
    /\ \E outcome \in InsertOutcomes :
        /\ MayAnswer(outcome)
        /\ faults' = Count(outcome)
        /\ LET e == eval[s]
               badge == badges[e.i]
               done == InsertUserBadge(user_badges, badge.id)
           IN CASE outcome = "ok" ->
                    /\ user_badges' = done.rows
                    /\ eval' = [eval EXCEPT ![s] =
                            AfterInsert(e, IF done.conflict THEN "conflict" ELSE "none")]
                [] outcome = "error" ->
                    /\ user_badges' = user_badges
                    /\ eval' = [eval EXCEPT ![s] = AfterInsert(e, "error")]
                [] outcome = "throw" ->
                    /\ user_badges' = user_badges
                    /\ eval' = [eval EXCEPT ![s] =
                            Catch([e EXCEPT !.insertThrew = @ \cup {badge.id},
                                            !.clean = FALSE], "throw")]
    /\ UNCHANGED <<badges, experiment_runs, profiles, session, clock>>

\* ------------------------------------------------------------------ an evaluation on its own

\* Math.round(xp / 500) + 1
LevelRounded(xp) == ((2 * xp + 500) \div 1000) + 1

\* Math.floor(xp / 500) + 1
Level(xp) == (xp \div 500) + 1

\* A tab before any page is open: the AuthContext has loaded the profile row.  The
\* fields after pc are the running handler's closure: what it read when it was clicked;
\* allExperiments and stats are the dashboard's.
NoPage(profile) ==
    [page |-> "none", profile |-> profile, experimentRunId |-> NULL,
     isCompleted |-> FALSE, starting |-> FALSE, pc |-> "idle",
     runId |-> NULL, score |-> 0, xpEarned |-> 0, closureXP |-> 0, newXP |-> 0,
     allExperiments |-> <<>>, allExperimentsIsNull |-> TRUE,
     stats |-> [totalExperiments |-> 0, completedExperiments |-> 0,
                averageAccuracy |-> 0, streak |-> 0]]

\* Attempts a history is drawn from.
HistoryRows ==
    { [experiment_id |-> "ohms", status |-> "completed", score |-> 100, completed_at |-> 1],
      [experiment_id |-> "ohms", status |-> "completed", score |-> 50, completed_at |-> 1],
      [experiment_id |-> "titration", status |-> "completed", score |-> 96, completed_at |-> 1],
      [experiment_id |-> "titration", status |-> "in_progress", score |-> NULL,
       completed_at |-> NULL] }

Histories == UNION { [1..n -> HistoryRows] : n \in 0..MaxHistory }

\* Values of the currentXP argument.
XPChoices == {120, 500}

\* Values of the completedExperiment argument: not passed, or, as the pages pass it,
\* the completed attempt that triggered the call.
CompletedChoices ==
    {undefined} \cup
    { JoinedRuns(experiment_runs)[r] :
        r \in {q \in 1..Len(experiment_runs) : experiment_runs[q].status = "completed"} }

\* The one caller of an evaluation checked on its own.
Caller == "s1"

InitEval ==
    /\ badges \in Catalogs
    /\ user_badges = [b \in BadgeIds |-> 0]
    /\ experiment_runs \in Histories
    /\ profiles = [xp_points |-> 0, level |-> 1]
    /\ session = [s \in Sessions |-> NoPage(profiles)]
    /\ eval = [s \in Sessions |-> NoEval]
    /\ faults = 0
    /\ clock = 2

\* checkAndAwardBadges(userId, currentXP, completedExperiment) is called; a call
\* follows the previous one of the same caller.
Call(s) ==
    /\ eval[s].pc \in {"idle", "returned"}
    /\ \E currentXP \in XPChoices, completedExperiment \in CompletedChoices :
        eval' = [eval EXCEPT ![s] =
                    StartEval(currentXP, completedExperiment, Summary(eval[s]))]
    /\ UNCHANGED <<badges, user_badges, experiment_runs, profiles, session, faults, clock>>

NextEval ==
    \/ Call(Caller)
    \/ FetchBadges(Caller)
    \/ FetchUserBadges(Caller)
    \/ FetchRuns(Caller)
    \/ InsertBadge(Caller)

SpecEval == InitEval /\ [][NextEval]_vars

\* ------------------------------------------------------------------ the experiment pages

\* The pages with a completion flow, named by the experiment each one runs.
ExperimentPages == {"ohms", "titration", "youngs"}

\* Math.round(num / den) for num >= 0, den > 0
Round(num, den) == (2 * num + den) \div (2 * den)

Min(a, b) == IF a <= b THEN a ELSE b
Max(a, b) == IF a >= b THEN a ELSE b
Abs(a) == IF a >= 0 THEN a ELSE -a

\* Values of interactionCount at a submit.
Interactions == {10}

\* Values of volumeAdded at a titration's completion, in drops of DROP_VOLUME = 0.5 mL
\* (the button needs 10 mL; the burette holds 50 mL).
TitrationDrops == {50, 100}

\* A score without the cap at 100.
InteractionScoreUncapped(interactionCount) == 50 + interactionCount * 5

\* Ohm's law and Young's double slit: baseScore 50 plus 5 per interaction, at most 100.
InteractionScore(interactionCount) ==
    LET baseScore == 50
        interactionBonus == Min(50, interactionCount * 5)
    IN Min(100, baseScore + interactionBonus)

\* Math.max(10, Math.round((score / 100) * experiment.xp_reward))
InteractionXP(score, xp_reward) == Max(10, Round(score * xp_reward, 100))

\* Titration: accuracy = max(0, 100 - 4 * |volumeAdded - 25|), volumeAdded = drops / 2.
TitrationAccuracy(drops) == Max(0, 100 - 2 * Abs(drops - 50))

\* Math.round((accuracy / 100) * experiment.xp_reward)
TitrationXP(accuracy, xp_reward) == Round(accuracy * xp_reward, 100)

\* A level counted from 0.
NewLevelFromZero(newXP) == newXP \div 500

\* A level from the XP gathered since the last multiple of 500.
NewLevelOfRemainder(newXP) == Level(newXP % 500)

\* const newLevel = Math.floor(newXP / 500) + 1
NewLevel(newXP) == Level(newXP)

\* The currentXP a page passes to checkAndAwardBadges: the Ohm's law page passes
\* profile?.xp_points || 0 of its closure, the other pages pass newXP.
BadgeCheckXP(page, closureXP, newXP) == IF page = "ohms" THEN closureXP ELSE newXP

\* Attempts started since the initial state (earlier ones were completed at time 0).
Started == Cardinality({r \in 1..Len(experiment_runs) : experiment_runs[r].completed_at # 0})

Starting == Cardinality({s \in Sessions : session[s].starting})

\* A handler has returned: its closure is gone.
EndHandler(tab) ==
    [tab EXCEPT !.pc = "idle", !.runId = NULL, !.score = 0, !.xpEarned = 0,
                !.closureXP = 0, !.newXP = 0]

\* Outcomes of a page's own store calls.
WriteOutcomes == {"ok", "error"}

\* The page mounts and has fetched its experiment; the effect calls startExperimentRun.
OpenPage(s, page) ==
    /\ session[s].page = "none"
    /\ Started + Starting < MaxRuns
    /\ session' = [session EXCEPT ![s] = [NoPage(@.profile) EXCEPT !.page = page,
                                                                     !.starting = TRUE]]
    /\ UNCHANGED <<badges, user_badges, experiment_runs, profiles, eval, faults, clock>>

\* startExperimentRun: the insert of an in_progress attempt answers.
StartExperimentRun(s) ==
    /\ session[s].starting
    /\ \E outcome \in WriteOutcomes :
        /\ MayAnswer(outcome)
        /\ faults' = Count(outcome)
        /\ IF outcome = "ok"
           THEN /\ experiment_runs' =
                        Append(experiment_runs,
                               [experiment_id |-> session[s].page, status |-> "in_progress",
                                score |-> NULL, completed_at |-> NULL])
                /\ session' = [session EXCEPT ![s].starting = FALSE,
                                              ![s].experimentRunId = Len(experiment_runs) + 1]
           ELSE /\ experiment_runs' = experiment_runs
                /\ session' = [session EXCEPT ![s].starting = FALSE]
    /\ UNCHANGED <<badges, user_badges, profiles, eval, clock>>

\* resetExperiment of the Ohm's law page: clears isCompleted and awaits
\* startExperimentRun; experimentRunId keeps its value until the insert answers.
\* resetExperiment of the titration page: also sets experimentRunId to null.
\* (handleReset of the Young's page resets the sliders only.)
ResetExperiment(s) ==
    /\ session[s].page \in {"ohms", "titration"}
    /\ ~session[s].starting
    /\ Started + Starting < MaxRuns
    /\ session' = [session EXCEPT
            ![s].isCompleted = FALSE,
            ![s].starting = TRUE,
            ![s].experimentRunId = IF session[s].page = "titration" THEN NULL ELSE @]
    /\ UNCHANGED <<badges, user_badges, experiment_runs, profiles, eval, faults, clock>>

\* submitResult (Ohm's law), handleSubmitResult (Young's) and handleSaveObservation
\* (colloidal solution) up to their first await: the score, setIsCompleted(true), the
\* insert of the result row issued.
SubmitResultWith(s, interactionCount) ==
    /\ session[s].page \in {"ohms", "youngs", "colloid"}
    /\ session[s].pc = "idle"
    /\ ~session[s].isCompleted
    /\ session[s].experimentRunId # NULL
    /\ LET score == InteractionScore(interactionCount)
       IN session' = [session EXCEPT
               ![s].isCompleted = TRUE,
               ![s].pc = "saveResult",
               ![s].runId = session[s].experimentRunId,
               ![s].score = score,
               ![s].xpEarned = InteractionXP(score, experiments[session[s].page].xp_reward),
               ![s].closureXP = session[s].profile.xp_points]
    /\ UNCHANGED <<badges, user_badges, experiment_runs, profiles, eval, faults, clock>>

SubmitResult(s) == \E interactionCount \in Interactions : SubmitResultWith(s, interactionCount)

\* The insert into ohmslaw_runs / youngs_double_slit_runs / colloid_runs answers: on an error the
\* handler returns, else it issues the update of the attempt.
SaveResult(s) ==
    /\ session[s].pc = "saveResult"
    /\ \E outcome \in WriteOutcomes :
        /\ MayAnswer(outcome)
        /\ faults' = Count(outcome)
        /\ session' = [session EXCEPT ![s] =
                IF outcome = "ok" THEN [@ EXCEPT !.pc = "updateRun"] ELSE EndHandler(@)]
    /\ UNCHANGED <<badges, user_badges, experiment_runs, profiles, eval, clock>>

\* completeExperiment (titration) up to its first await: the score from the volume,
\* setIsCompleted(true), the update of the attempt issued.
CompleteExperimentWith(s, drops) ==
    /\ session[s].page = "titration"
    /\ session[s].pc = "idle"
    /\ ~session[s].isCompleted
    /\ session[s].experimentRunId # NULL
    /\ LET accuracy == TitrationAccuracy(drops)
       IN session' = [session EXCEPT
               ![s].isCompleted = TRUE,
               ![s].pc = "updateRun",
               ![s].runId = session[s].experimentRunId,
               ![s].score = Round(accuracy, 1),
               ![s].xpEarned = TitrationXP(accuracy, experiments["titration"].xp_reward),
               ![s].closureXP = session[s].profile.xp_points]
    /\ UNCHANGED <<badges, user_badges, experiment_runs, profiles, eval, faults, clock>>

CompleteExperiment(s) == \E drops \in TitrationDrops : CompleteExperimentWith(s, drops)

\* update({status: 'completed', completed_at: now, score, ...}).eq('id', experimentRunId)
CompleteRun(runs, runId, score, now) ==
    [runs EXCEPT ![runId] = [@ EXCEPT !.status = "completed", !.completed_at = now,
                                      !.score = score]]

\* Whether the handler goes on after the update of the attempt answered: the Ohm's law
\* and Young's pages return on updateError, the titration page does not look at it.
GoesOn(page, outcome) == page = "titration" \/ outcome = "ok"

\* The update of the attempt answers; the handler then computes newXP and newLevel from
\* the profile of its closure and issues updateProfile.
UpdateRun(s) ==
    /\ session[s].pc = "updateRun"
    /\ \E outcome \in WriteOutcomes :
        /\ MayAnswer(outcome)
        /\ faults' = Count(outcome)
        /\ IF outcome = "ok"
           THEN /\ experiment_runs' = CompleteRun(experiment_runs, session[s].runId,
                                                  session[s].score, clock)
                /\ clock' = clock + 1
           ELSE UNCHANGED <<experiment_runs, clock>>
        /\ session' = [session EXCEPT ![s] =
                IF GoesOn(@.page, outcome)
                THEN [@ EXCEPT !.pc = "updateProfile",
                               !.newXP = session[s].closureXP + session[s].xpEarned]
                ELSE EndHandler(@)]
    /\ UNCHANGED <<badges, user_badges, profiles, eval>>

\* updateProfile({xp_points: newXP, level: newLevel}) answers: on success the row is
\* written and the AuthContext state merged; either way the handler then calls
\* checkAndAwardBadges with the attempt it completed.
UpdateProfile(s) ==
    /\ session[s].pc = "updateProfile"
    /\ \E outcome \in WriteOutcomes :
        /\ MayAnswer(outcome)
        /\ faults' = Count(outcome)
        /\ LET data == [xp_points |-> session[s].newXP, level |-> NewLevel(session[s].newXP)]
               page == session[s].page
               completedRun ==
                   [id |-> session[s].runId, experiment_id |-> page, status |-> "completed",
                    score |-> session[s].score,
                    experiments |-> [name |-> experiments[page].name,
                                     subject |-> experiments[page].subject]]
           IN /\ profiles' = IF outcome = "ok" THEN data ELSE profiles
              /\ session' = [session EXCEPT
                      ![s].pc = "badges",
                      ![s].profile = IF outcome = "ok" THEN data ELSE @]
              /\ eval' = [eval EXCEPT ![s] =
                      StartEval(BadgeCheckXP(page, session[s].closureXP, session[s].newXP),
                                completedRun, <<>>)]
    /\ UNCHANGED <<badges, user_badges, experiment_runs, clock>>

\* checkAndAwardBadges has returned to the page: logEvent and the toast, the handler ends.
FinishSubmit(s) ==
    /\ session[s].pc = "badges"
    /\ eval[s].pc = "returned"
    /\ session' = [session EXCEPT ![s] = EndHandler(@)]
    /\ eval' = [eval EXCEPT ![s] = NoEval]
    /\ UNCHANGED <<badges, user_badges, experiment_runs, profiles, faults, clock>>

\* The Profile page mounts: its effect calls checkAndAwardBadges(user.id, profile.xp_points).
OpenProfile(s) ==
    /\ session[s].page = "none"
    /\ session' = [session EXCEPT ![s].page = "profile"]
    /\ eval' = [eval EXCEPT ![s] = StartEval(session[s].profile.xp_points, undefined, <<>>)]
    /\ UNCHANGED <<badges, user_badges, experiment_runs, profiles, faults, clock>>

\* fetchProfile of the AuthContext, run on every auth state change of the tab.
FetchProfile(s) ==
    /\ session[s].profile # profiles
    /\ session' = [session EXCEPT ![s].profile = profiles]
    /\ UNCHANGED <<badges, user_badges, experiment_runs, profiles, eval, faults, clock>>

\* ------------------------------------------------------------------ the application

\* The user of the application: has completed the titration three times at the
\* equivalence point (150 XP each) and holds the badges that history grants.
ReturningUser ==
    [runs |-> [r \in 1..3 |-> [experiment_id |-> "titration", status |-> "completed",
                               score |-> 100, completed_at |-> 0]],
     profile |-> [xp_points |-> 450, level |-> 1]]

\* The badges a user holds after an evaluation in which every store call succeeded.
Granted(catalog, user) ==
    [b \in BadgeIds |->
        IF \E k \in 1..Len(catalog) :
               /\ catalog[k].id = b
               /\ ~IsNullCriteria(catalog[k])
               /\ ShouldAward(catalog[k].criteria, user.profile.xp_points, undefined,
                              JoinedRuns(user.runs))
        THEN 1 ELSE 0]

Init ==
    /\ badges = AppCatalog
    /\ experiment_runs = ReturningUser.runs
    /\ profiles = ReturningUser.profile
    /\ user_badges = Granted(AppCatalog, ReturningUser)
    /\ session = [s \in Sessions |-> NoPage(profiles)]
    /\ eval = [s \in Sessions |-> NoEval]
    /\ faults = 0
    /\ clock = 1

Next ==
    \E s \in Sessions :
        \/ \E page \in ExperimentPages : OpenPage(s, page)
        \/ StartExperimentRun(s)
        \/ ResetExperiment(s)
        \/ SubmitResult(s)
        \/ SaveResult(s)
        \/ CompleteExperiment(s)
        \/ UpdateRun(s)
        \/ UpdateProfile(s)
        \/ FinishSubmit(s)
        \/ OpenProfile(s)
        \/ FetchProfile(s)
        \/ FetchBadges(s)
        \/ FetchUserBadges(s)
        \/ FetchRuns(s)
        \/ InsertBadge(s)

Spec == Init /\ [][Next]_vars

\* ------------------------------------------------------------------ the levels

\* Every page with a completion flow that computes newLevel.
LevelPages == ExperimentPages \cup {"colloid"}

\* Stored XP of the user before the completions: 0, and the values from which one
\* completion of 120 XP (Ohm's law) or of 150 XP (the other pages) arrives just
\* below or at a multiple of 500.
StartXPs == {0, 349, 350, 379, 380, 849, 850, 879, 880}

\* One tab of a user without badges and without attempts; the profile row holds the
\* level the flows wrote with its XP.
InitLevel ==
    /\ badges = AppCatalog
    /\ experiment_runs = <<>>
    /\ \E xp \in StartXPs : profiles = [xp_points |-> xp, level |-> Level(xp)]
    /\ user_badges = [b \in BadgeIds |-> 0]
    /\ session = [s \in Sessions |-> NoPage(profiles)]
    /\ eval = [s \in Sessions |-> NoEval]
    /\ faults = 0
    /\ clock = 1

NextLevel ==
    \/ \E page \in LevelPages : OpenPage(Caller, page)
    \/ StartExperimentRun(Caller)
    \/ ResetExperiment(Caller)
    \/ SubmitResult(Caller)
    \/ SaveResult(Caller)
    \/ CompleteExperiment(Caller)
    \/ UpdateRun(Caller)
    \/ UpdateProfile(Caller)
    \/ FinishSubmit(Caller)
    \/ FetchBadges(Caller)
    \/ FetchUserBadges(Caller)
    \/ FetchRuns(Caller)
    \/ InsertBadge(Caller)

SpecLevel == InitLevel /\ [][NextLevel]_vars

\* ------------------------------------------------------------------ the scores

\* Values of interactionCount at a submit, from none to past the cap of the bonus.
MaxInteractions == 12
ScoreInteractions == 0..MaxInteractions

\* Values of volumeAdded at a titration's completion, in drops: from the 10 mL the
\* button needs to past the 50 mL of the burette (drops still falling when it empties).
MinDrops == 20
MaxDrops == 104
ScoreDrops == MinDrops..MaxDrops

\* One tab of a new user.
InitScore ==
    /\ badges = AppCatalog
    /\ experiment_runs = <<>>
    /\ profiles = [xp_points |-> 0, level |-> 1]
    /\ user_badges = [b \in BadgeIds |-> 0]
    /\ session = [s \in Sessions |-> NoPage(profiles)]
    /\ eval = [s \in Sessions |-> NoEval]
    /\ faults = 0
    /\ clock = 1

NextScore ==
    \/ \E page \in LevelPages : OpenPage(Caller, page)
    \/ StartExperimentRun(Caller)
    \/ ResetExperiment(Caller)
    \/ \E interactionCount \in ScoreInteractions : SubmitResultWith(Caller, interactionCount)
    \/ SaveResult(Caller)
    \/ \E drops \in ScoreDrops : CompleteExperimentWith(Caller, drops)
    \/ UpdateRun(Caller)
    \/ UpdateProfile(Caller)
    \/ FinishSubmit(Caller)
    \/ FetchBadges(Caller)
    \/ FetchUserBadges(Caller)
    \/ FetchRuns(Caller)
    \/ InsertBadge(Caller)

SpecScore == InitScore /\ [][NextScore]_vars

\* ------------------------------------------------------------------ the dashboard

\* Longest list of attempts drawn for the dashboard.
MaxAttempts == 4

\* An instant (completed_at, new Date()) is the number of a day; the local calendar
\* date getFullYear / getMonth / getDate give for it, month counted from 0, over
\* three stretches of five days: the end of February of a leap year, the end of a
\* year, the end of February of a common year.
LocalDate ==
    [t \in (1..5) \cup (11..15) \cup (21..25) |->
        CASE t = 1  -> [year |-> 2024, month |-> 1,  date |-> 27]
          [] t = 2  -> [year |-> 2024, month |-> 1,  date |-> 28]
          [] t = 3  -> [year |-> 2024, month |-> 1,  date |-> 29]
          [] t = 4  -> [year |-> 2024, month |-> 2,  date |-> 1]
          [] t = 5  -> [year |-> 2024, month |-> 2,  date |-> 2]
          [] t = 11 -> [year |-> 2023, month |-> 11, date |-> 29]
          [] t = 12 -> [year |-> 2023, month |-> 11, date |-> 30]
          [] t = 13 -> [year |-> 2023, month |-> 11, date |-> 31]
          [] t = 14 -> [year |-> 2024, month |-> 0,  date |-> 1]
          [] t = 15 -> [year |-> 2024, month |-> 0,  date |-> 2]
          [] t = 21 -> [year |-> 2023, month |-> 1,  date |-> 26]
          [] t = 22 -> [year |-> 2023, month |-> 1,  date |-> 27]
          [] t = 23 -> [year |-> 2023, month |-> 1,  date |-> 28]
          [] t = 24 -> [year |-> 2023, month |-> 2,  date |-> 1]
          [] t = 25 -> [year |-> 2023, month |-> 2,  date |-> 2]]

\* The first days of the three stretches.
Stretches == {1, 11, 21}

digits == <<"0","1","2","3","4","5","6","7","8","9">>

\* String(n) of a natural number
RECURSIVE String(_)
String(n) ==
    IF n < 10 THEN <<digits[n + 1]>> ELSE String(n \div 10) \o <<digits[(n % 10) + 1]>>

\* str.padStart(targetLength, padString) with a one-character padString
RECURSIVE padStart(_, _, _)
padStart(str, targetLength, padString) ==
    IF Len(str) >= targetLength THEN str
    ELSE padStart(<<padString>> \o str, targetLength, padString)

\* `${year}-${month}-${day}` of a local date
DateStr(date) ==
    String(date.year) \o <<"-">> \o padStart(String(date.month + 1), 2, "0")
        \o <<"-">> \o padStart(String(date.date), 2, "0")

IsLeapYear(year) == (year % 4 = 0 /\ year % 100 # 0) \/ year % 400 = 0

\* The number of days of a month counted from 0.
DaysInMonth(year, month) ==
    IF month = 1 THEN (IF IsLeapYear(year) THEN 29 ELSE 28)
    ELSE IF month \in {3, 5, 8, 10} THEN 30 ELSE 31

\* A day before computed on the day of the month alone.
PreviousDateNoRollover(date) == [date EXCEPT !.date = @ - 1]

\* currentDate.setDate(currentDate.getDate() - 1): day 0 is the last day of the
\* month before.
PreviousDate(date) ==
    IF date.date > 1 THEN [date EXCEPT !.date = @ - 1]
    ELSE IF date.month > 0
    THEN [date EXCEPT !.month = @ - 1, !.date = DaysInMonth(date.year, date.month - 1)]
    ELSE [year |-> date.year - 1, month |-> 11, date |-> 31]

\* The set of date strings of the completed attempts that have a completion time.
CompletedDates(attempts) ==
    { DateStr(LocalDate[attempts[k].completed_at]) :
        k \in {j \in 1..Len(attempts) :
                   /\ attempts[j].status = "completed"
                   /\ attempts[j].completed_at # NULL} }

\* No date: the walk does not start.
NoDate == [year |-> 0, month |-> 0, date |-> 0]

\* A start of the walk without the look at yesterday.
StartDateTodayOnly(completedDates, today) ==
    IF DateStr(today) \in completedDates THEN today ELSE NoDate

\* The date the walk starts from: today if it has a completion, else yesterday if it
\* has one, else none (return 0).
StartDate(completedDates, today) ==
    IF DateStr(today) \in completedDates THEN today
    ELSE IF DateStr(PreviousDate(today)) \in completedDates THEN PreviousDate(today)
    ELSE NoDate

\* A walk that counts the day without a completion it stops at.
RECURSIVE CountBackInclusive(_, _, _)
CountBackInclusive(completedDates, currentDate, streak) ==
    IF DateStr(currentDate) \in completedDates
    THEN CountBackInclusive(completedDates, PreviousDate(currentDate), streak + 1)
    ELSE streak + 1

\* while (true): count the days backwards up to the first one without a completion.
RECURSIVE CountBack(_, _, _)
CountBack(completedDates, currentDate, streak) ==
    IF DateStr(currentDate) \in completedDates
    THEN CountBack(completedDates, PreviousDate(currentDate), streak + 1)
    ELSE streak

calculateStreak(attempts, now) ==
    LET completedDates == CompletedDates(attempts)
        start == IF completedDates = {} THEN NoDate
                 ELSE StartDate(completedDates, LocalDate[now])
    IN IF start = NoDate THEN 0 ELSE CountBack(completedDates, start, 0)

\* completed.reduce((sum, e) => sum + (e.score || 0), 0)
RECURSIVE SumScores(_)
SumScores(runs) == IF runs = <<>> THEN 0 ELSE ScoreOrZero(Head(runs)) + SumScores(Tail(runs))

\* The stats fetchDashboardData sets from the attempts it fetched.
DashboardStats(allExperiments, now) ==
    LET completed == SelectSeq(allExperiments, LAMBDA e : e.status = "completed")
    IN [totalExperiments |-> Len(allExperiments),
        completedExperiments |-> Len(completed),
        averageAccuracy |-> IF Len(completed) > 0
                            THEN Round(SumScores(completed), Len(completed)) ELSE 0,
        streak |-> calculateStreak(allExperiments, now)]

\* The dashboard mounts with a profile: fetchDashboardData issues its first select.
OpenDashboard(s) ==
    /\ session[s].page = "none"
    /\ session' = [session EXCEPT ![s] = [@ EXCEPT !.page = "dashboard", !.pc = "fetchAll"]]
    /\ UNCHANGED <<badges, user_badges, experiment_runs, profiles, eval, faults, clock>>

\* The select of all attempts answers (data is null on an error); the select of the
\* recent ones is issued.
FetchAllExperiments(s) ==
    /\ session[s].page = "dashboard"
    /\ session[s].pc = "fetchAll"
    /\ \E outcome \in WriteOutcomes :
        /\ MayAnswer(outcome)
        /\ faults' = Count(outcome)
        /\ session' = [session EXCEPT ![s] =
                [@ EXCEPT !.pc = "fetchRecent",
                          !.allExperiments =
                              IF outcome = "ok" THEN experiment_runs ELSE <<>>,
                          !.allExperimentsIsNull = (outcome # "ok")]]
    /\ UNCHANGED <<badges, user_badges, experiment_runs, profiles, eval, clock>>

\* The select of the recent attempts answers; if (allExperiments) setStats(...), with
\* the streak as of now; the select of the earned badges is issued.
FetchRecentExperiments(s) ==
    /\ session[s].page = "dashboard"
    /\ session[s].pc = "fetchRecent"
    /\ session' = [session EXCEPT ![s] =
            [@ EXCEPT !.pc = "fetchEarned",
                      !.stats = IF ~session[s].allExperimentsIsNull
                                THEN DashboardStats(session[s].allExperiments, clock)
                                ELSE @]]
    /\ UNCHANGED <<badges, user_badges, experiment_runs, profiles, eval, faults, clock>>

\* The select of the earned badges answers: the list is shown, the handler ends.
FetchEarnedBadges(s) ==
    /\ session[s].page = "dashboard"
    /\ session[s].pc = "fetchEarned"
    /\ session' = [session EXCEPT ![s] = [@ EXCEPT !.pc = "idle", !.allExperiments = <<>>,
                                                    !.allExperimentsIsNull = TRUE]]
    /\ UNCHANGED <<badges, user_badges, experiment_runs, profiles, eval, faults, clock>>

\* Attempts of the dashboard's user within the stretch that starts at day first:
\* completed on one of its days, completed without a completion time, in progress,
\* abandoned.
AttemptRows(first) ==
    { [experiment_id |-> "ohms", status |-> "completed", score |-> 100, completed_at |-> t] :
          t \in first..(first + 4) }
    \cup { [experiment_id |-> "ohms", status |-> st, score |-> NULL, completed_at |-> NULL] :
          st \in {"completed", "in_progress", "abandoned"} }

InitDashboard ==
    /\ badges = AppCatalog
    /\ user_badges = [b \in BadgeIds |-> 0]
    /\ \E first \in Stretches :
        /\ clock \in {first + 3, first + 4}
        /\ experiment_runs \in
               UNION {[1..n -> {r \in AttemptRows(first) :
                                    r.completed_at = NULL \/ r.completed_at <= clock}] :
                      n \in 0..MaxAttempts}
    /\ profiles = [xp_points |-> 0, level |-> 1]
    /\ session = [s \in Sessions |-> NoPage(profiles)]
    /\ eval = [s \in Sessions |-> NoEval]
    /\ faults = 0

NextDashboard ==
    \/ OpenDashboard(Caller)
    \/ FetchAllExperiments(Caller)
    \/ FetchRecentExperiments(Caller)
    \/ FetchEarnedBadges(Caller)

SpecDashboard == InitDashboard /\ [][NextDashboard]_vars

\* ------------------------------------------------------------------ the progress shown

\* The XP left in the band of 500 the user is in, taken from the level's width.
xpToNextLevelOfBand(profile) == (profile.level * 500) - (profile.xp_points % 500)

\* const xpToNextLevel = (profile.level * 500) - (profile.xp_points % (profile.level * 500)),
\* as the Dashboard and the Profile page render it from the profile of the tab.
xpToNextLevel(profile) ==
    (profile.level * 500) - (profile.xp_points % (profile.level * 500))

\* Stored XP of the user whose progress is shown: around the multiples of 500 up to
\* level 5.
ProgressXPs ==
    {0, 1, 250, 499, 500, 501, 600, 999, 1000, 1001, 1499, 1500, 1999, 2000, 2499}

\* A user with such a profile, without attempts and badges.
InitProgress ==
    /\ badges = AppCatalog
    /\ experiment_runs = <<>>
    /\ \E xp \in ProgressXPs : profiles = [xp_points |-> xp, level |-> Level(xp)]
    /\ user_badges = [b \in BadgeIds |-> 0]
    /\ session = [s \in Sessions |-> NoPage(profiles)]
    /\ eval = [s \in Sessions |-> NoEval]
    /\ faults = 0
    /\ clock = 1

\* The two tabs open the Dashboard or the Profile page, whose effects run.
NextProgress ==
    \E s \in Sessions :
        \/ OpenDashboard(s)
        \/ FetchAllExperiments(s)
        \/ FetchRecentExperiments(s)
        \/ FetchEarnedBadges(s)
        \/ OpenProfile(s)
        \/ FetchBadges(s)
        \/ FetchUserBadges(s)
        \/ FetchRuns(s)
        \/ InsertBadge(s)

SpecProgress == InitProgress /\ [][NextProgress]_vars

\* ------------------------------------------------------------------ single definitions

\* Attempts a history for the subject-mastery definition is drawn from.
MasteryRows ==
    { [experiment_id |-> "titration", status |-> "completed", score |-> 100, completed_at |-> 1],
      [experiment_id |-> "titration", status |-> "completed", score |-> 50, completed_at |-> 1],
      [experiment_id |-> "titration", status |-> "in_progress", score |-> NULL,
       completed_at |-> NULL],
      [experiment_id |-> "ohms", status |-> "completed", score |-> 50, completed_at |-> 1] }

\* A catalog of one definition with a history that bears on its criteria.
MasteryCases ==
    { [badges |-> <<ChemistryWizard>>, runs |-> h] :
        h \in UNION {[1..n -> MasteryRows] : n \in 0..MaxAttempts} }

\* Attempts a history for a definition with an experiment_type is drawn from.
TypeRows ==
    { [experiment_id |-> e, status |-> "completed", score |-> 100, completed_at |-> 1] :
          e \in DOMAIN experiments }
    \cup { [experiment_id |-> "ohms", status |-> "in_progress", score |-> NULL,
            completed_at |-> NULL] }

TypeCases ==
    { [badges |-> <<TypeCount(c)>>, runs |-> h] :
        c \in CriterionTexts, h \in UNION {[1..n -> TypeRows] : n \in 0..MaxHistory} }

\* The seeded catalog and a user whose one attempt is completed with score 100.
FirstCompletionCases ==
    { [badges |-> SeededBadges,
       runs |-> <<[experiment_id |-> e, status |-> "completed", score |-> 100,
                   completed_at |-> 1]>>] : e \in {"ohms", "titration"} }

\* Attempts a history for a count of accurate attempts of a type is drawn from.
AccuracyRows ==
    { [experiment_id |-> "ohms", status |-> "completed", score |-> 100, completed_at |-> 1],
      [experiment_id |-> "ohms_caps", status |-> "completed", score |-> 85, completed_at |-> 1],
      [experiment_id |-> "ohms", status |-> "completed", score |-> 80, completed_at |-> 1],
      [experiment_id |-> "ohms", status |-> "in_progress", score |-> NULL,
       completed_at |-> NULL],
      [experiment_id |-> "titration", status |-> "completed", score |-> 100,
       completed_at |-> 1] }

\* Longest history drawn for it and largest count asked for.
MaxAccurate == 3

AccuracyCases ==
    { [badges |-> <<OhmsLawExpert(n)>>, runs |-> h] :
        n \in 1..MaxAccurate, h \in UNION {[1..k -> AccuracyRows] : k \in 0..MaxAccurate} }

\* Attempts a history for a count block is drawn from.
CountRows ==
    { [experiment_id |-> "titration", status |-> "completed", score |-> 100,
       completed_at |-> 1],
      [experiment_id |-> "ohms", status |-> "completed", score |-> 100, completed_at |-> 1],
      [experiment_id |-> "youngs", status |-> "in_progress", score |-> NULL,
       completed_at |-> NULL] }

\* Largest count asked for; the histories are one attempt longer.
MaxCount == 2

CountCases ==
    { [badges |-> <<b>>, runs |-> h] :
        b \in UNION {{TypeAndSubjectCount(n), PhysicsExplorer(n), OverallCount(n)} :
                         n \in 1..MaxCount},
        h \in UNION {[1..k -> CountRows] : k \in 0..(MaxCount + 1)} }

\* Values of min_accuracy: the lowest and the highest score, and the seeded one.
Accuracies == {0, 90, 100}

\* Mastery of chemistry for users with and without attempts in chemistry.
NoAttemptCases ==
    { [badges |-> <<ChemistryMastery(m)>>, runs |-> h] :
        m \in Accuracies, h \in UNION {[1..k -> MasteryRows] : k \in 0..MaxHistory} }

\* A catalog with a definition of unknown shape between two seeded ones.
UnknownShapeCases ==
    { [badges |-> <<FirstSteps, b, AccuracyMaster>>, runs |-> h] :
        b \in {EmptyCriteria, UnknownCriteria, NoCriteria}, h \in Histories }

CriteriaCases ==
    MasteryCases \cup TypeCases \cup FirstCompletionCases \cup UnknownShapeCases
        \cup AccuracyCases \cup CountCases \cup NoAttemptCases

\* Evaluations of such a catalog in which every store call answers with data.
InitCriteria ==
    /\ \E c \in CriteriaCases :
        /\ badges = c.badges
        /\ experiment_runs = c.runs
    /\ user_badges = [b \in BadgeIds |-> 0]
    /\ profiles = [xp_points |-> 0, level |-> 1]
    /\ session = [s \in Sessions |-> NoPage(profiles)]
    /\ eval = [s \in Sessions |-> NoEval]
    /\ faults = MaxFaults
    /\ clock = 2

SpecCriteria == InitCriteria /\ [][NextEval]_vars

\* ---------------------------------------------------------------------------------
\* Properties
\* ---------------------------------------------------------------------------------

\* The elements of a sequence.
Range(seq) == {seq[k] : k \in 1..Len(seq)}

\* C1: whatever evaluations run, one after the other or at the same time in two tabs,
\* the store never holds more than one earned-badge row for the user and a badge.
C1_AtMostOneRowPerBadge == \A b \in BadgeIds : user_badges[b] <= 1

\* Two evaluations that both read the earned set before either inserted have both
\* issued the insert of the same badge, and one row exists.
C1_BothInserted ==
    \E b \in BadgeIds :
        /\ user_badges[b] = 1
        /\ \A s \in Sessions :
            /\ eval[s].pc = "returned"
            /\ b \notin eval[s].earnedBadgeIds
            /\ b \in Range(eval[s].insertCalls)

C3_NoAwardAfterFailedFetch ==
    \A s \in Sessions :
        eval[s].fetchFailed
            => (eval[s].awardedBadgeNames = <<>> /\ eval[s].insertCalls = <<>>)

\* The select of the attempts failed in an evaluation that had a badge to award.
C3_FailedFetchWithBadgeDue ==
    \E s \in Sessions :
        /\ eval[s].pc = "returned"
        /\ <<"Error fetching experiment runs", "error", 0>> \in eval[s].consoleErrors
        /\ \E badge \in Range(badges) :
            /\ badge.id \notin eval[s].earnedBadgeIds
            /\ ~IsNullCriteria(badge)
            /\ ShouldAward(badge.criteria, eval[s].currentXP, eval[s].completedExperiment,
                           JoinedRuns(experiment_runs))

\* C4: no error leaves checkAndAwardBadges, whether a store call answers with an error
\* result, rejects, or answers with null data, and whatever the criteria are; what
\* it returns is a list of names of catalog badges.
C4_NeverThrows ==
    \A s \in Sessions :
        /\ eval[s].pc # "threw"
        /\ eval[s].pc = "returned"
            => Range(eval[s].awardedBadgeNames) \subseteq {badge.name : badge \in Range(badges)}

\* An evaluation has returned after an error was thrown inside it.
C4_ReturnedAfterThrow ==
    \E s \in Sessions :
        /\ eval[s].pc = "returned"
        /\ \E cause \in {"throw", "TypeError"} :
               <<"Error in checkAndAwardBadges", cause, 0>> \in eval[s].consoleErrors

\* C5 as stated: when the insert of one badge answers with an error, every later
\* definition of the catalog that the caller does not hold and whose criteria are met
\* still gets its insert in the same call.
C5_LaterBadgesStillAwarded ==
    \A s \in Sessions :
        eval[s].pc = "returned" =>
            \A k \in 1..Len(badges) : \A j \in (k + 1)..Len(badges) :
                (/\ badges[k].id \in eval[s].insertFailed
                 /\ badges[j].id \notin eval[s].earnedBadgeIds
                 /\ ~IsNullCriteria(badges[j])
                 /\ ShouldAward(badges[j].criteria, eval[s].currentXP,
                                eval[s].completedExperiment, eval[s].allRuns))
                    => badges[j].id \in Range(eval[s].insertCalls)

\* C6 as stated: an insert that meets the unique (user, badge) constraint is handled
\* like a success and is not reported as an error; taken here in runs in which every
\* store call answers with data, so that the conflict comes from two evaluations only.
C6_ConflictNotReported ==
    faults = 0 =>
        \A s \in Sessions : \A b \in BadgeIds :
            <<"[Badge Award] Error awarding badge", "conflict", b>>
                \notin eval[s].consoleErrors

\* The positions of the completed attempts.
CompletedAttempts(runs) == {k \in 1..Len(runs) : runs[k].status = "completed"}

\* The positions of the attempts whose experiment name contains the type.
AttemptsOfType(runs, experiment_type) ==
    {k \in 1..Len(runs) : includes(normalizeExperimentName(runs[k].experiments.name),
                                   normalizeExperimentName(experiment_type))}

\* The positions of the attempts of the subject.
AttemptsOfSubject(runs, subject) ==
    {k \in 1..Len(runs) : toLowerCase(runs[k].experiments.subject) = toLowerCase(subject)}

\* The count block: enough completed attempts of the type (at the minimum accuracy, if
\* one is given), else of the subject, else overall.
CountBlock(criteria, runs) ==
    /\ Has(criteria, "experiments_completed")
    /\ LET pool ==
               IF TruthyText(criteria, "experiment_type")
               THEN {k \in CompletedAttempts(runs) \cap
                               AttemptsOfType(runs, criteria.experiment_type) :
                         Has(criteria, "min_accuracy")
                             => ScoreOrZero(runs[k]) >= criteria.min_accuracy}
               ELSE IF TruthyText(criteria, "subject")
               THEN CompletedAttempts(runs) \cap AttemptsOfSubject(runs, criteria.subject)
               ELSE CompletedAttempts(runs)
       IN Cardinality(pool) >= criteria.experiments_completed

\* The type-completion block, on the attempt that triggered the evaluation.
TypeCompletionBlock(criteria, completedExperiment) ==
    /\ TruthyText(criteria, "experiment_type")
    /\ completedExperiment # undefined
    /\ completedExperiment.status = "completed"
    /\ includes(normalizeExperimentName(completedExperiment.experiments.name),
                normalizeExperimentName(criteria.experiment_type))
    /\ \/ Has(criteria, "completed") /\ criteria.completed = TRUE
       \/ ~TruthyNumber(criteria, "accuracy_threshold")
              /\ ~TruthyNumber(criteria, "experiments_completed")

\* The accuracy block: the best score of the completed attempts (of the type, if one
\* is given; 0 without attempts) reaches the threshold.
AccuracyBlock(criteria, runs) ==
    /\ Has(criteria, "accuracy_threshold")
    /\ LET pool == IF TruthyText(criteria, "experiment_type")
                   THEN CompletedAttempts(runs) \cap
                            AttemptsOfType(runs, criteria.experiment_type)
                   ELSE CompletedAttempts(runs)
       IN \/ \E k \in pool : ScoreOrZero(runs[k]) >= criteria.accuracy_threshold
          \/ pool = {} /\ 0 >= criteria.accuracy_threshold

\* The XP block.
XpBlock(criteria, currentXP) ==
    Has(criteria, "xp_threshold") /\ currentXP >= criteria.xp_threshold

\* The subject-mastery block: the subject has attempts, all completed, all at the
\* minimum accuracy.
MasteryBlock(criteria, runs) ==
    /\ TruthyText(criteria, "subject")
    /\ Has(criteria, "min_accuracy")
    /\ AttemptsOfSubject(runs, criteria.subject) # {}
    /\ \A k \in AttemptsOfSubject(runs, criteria.subject) :
           /\ runs[k].status = "completed"
           /\ ScoreOrZero(runs[k]) >= criteria.min_accuracy

\* C7: a definition the evaluation reaches gets its insert exactly when at least one
\* of the blocks that apply to its criteria is true (so a definition with both a count
\* and an accuracy threshold gets it when either is met), and the names returned are
\* those of the inserts that answered without an error.
C7_AwardedIffSomeBlock ==
    \A s \in Sessions : \A badge \in Range(badges) :
        badge.id \in eval[s].evaluated =>
            /\ badge.id \in Range(eval[s].insertCalls)
                 <=> \/ CountBlock(badge.criteria, eval[s].allRuns)
                     \/ TypeCompletionBlock(badge.criteria, eval[s].completedExperiment)
                     \/ AccuracyBlock(badge.criteria, eval[s].allRuns)
                     \/ XpBlock(badge.criteria, eval[s].currentXP)
                     \/ MasteryBlock(badge.criteria, eval[s].allRuns)
            /\ eval[s].pc = "returned" =>
                 (badge.name \in Range(eval[s].awardedBadgeNames)
                     <=> badge.id \in Range(eval[s].insertCalls)
                            \ (eval[s].insertFailed \cup eval[s].insertThrew))

\* The definition with a count of 2 and an accuracy threshold of 95 was awarded on the
\* accuracy alone.
C7_AwardedOnAccuracyAlone ==
    \E s \in Sessions :
        /\ eval[s].pc = "returned"
        /\ CountAndAccuracy \in Range(badges)
        /\ CountAndAccuracy.name \in Range(eval[s].awardedBadgeNames)
        /\ ~CountBlock(CountAndAccuracy.criteria, eval[s].allRuns)
        /\ AccuracyBlock(CountAndAccuracy.criteria, eval[s].allRuns)

\* C8 as stated: the stored XP of the user never decreases.
C8_XpNeverDecreases == [][profiles'.xp_points >= profiles.xp_points]_vars

\* C9: in every state the stored level is floor(XP / 500) + 1 of the stored XP.
C9_LevelFollowsXp == profiles.level = (profiles.xp_points \div 500) + 1

\* A completion has taken the stored XP over 500 and the stored level to 2 or more.
C9_LevelRaised == profiles.xp_points >= 500 /\ profiles.level >= 2

\* C10 as stated: an attempt is created in_progress, and once it is completed no
\* later step writes its status, score or completion time again.
C10_CompletedAttemptFrozen ==
    [][/\ \A r \in 1..Len(experiment_runs) :
              experiment_runs[r].status = "completed"
                  => experiment_runs'[r] = experiment_runs[r]
       /\ \A r \in (Len(experiment_runs) + 1)..Len(experiment_runs') :
              experiment_runs'[r].status = "in_progress"]_vars

\* The tabs whose dashboard has set its stats from the attempts it fetched.
StatsSet == {s \in Sessions : /\ session[s].page = "dashboard"
                              /\ session[s].pc = "fetchEarned"
                              /\ ~session[s].allExperimentsIsNull}

\* The days that carry a completed attempt.
CompletionDays ==
    {experiment_runs[k].completed_at :
        k \in {j \in 1..Len(experiment_runs) :
                   /\ experiment_runs[j].status = "completed"
                   /\ experiment_runs[j].completed_at # NULL}}

\* The length of the run of consecutive days of the set that ends at the day.
RunEndingAt(days, day) ==
    CHOOSE n \in 0..Cardinality(days) :
        /\ \A k \in 0..(n - 1) : (day - k) \in days
        /\ (day - n) \notin days

\* C11: the streak shown is the length of the run of consecutive calendar days with a
\* completed attempt that ends today, or yesterday when today has no completion.
C11_StreakIsRunEndingNow ==
    \A s \in StatsSet :
        session[s].stats.streak =
            RunEndingAt(CompletionDays,
                        IF clock \in CompletionDays THEN clock ELSE clock - 1)

\* Completions on the four days up to today, across the end of a month: streak 4.
C11_FourDays ==
    \E s \in StatsSet :
        /\ {clock - 3, clock - 2, clock - 1, clock} \subseteq CompletionDays
        /\ LocalDate[clock].date < 4
        /\ session[s].stats.streak = 4

\* C12: the streak is 0 exactly when neither today nor yesterday has a completed
\* attempt, and at least 1 when today has none but yesterday has one.
C12_GraceDay ==
    \A s \in StatsSet :
        /\ session[s].stats.streak = 0
              <=> (clock \notin CompletionDays /\ (clock - 1) \notin CompletionDays)
        /\ (clock \notin CompletionDays /\ (clock - 1) \in CompletionDays)
              => session[s].stats.streak >= 1

\* The last completion was yesterday, with none the day before: the streak is 1.
C12_AnchoredAtYesterday ==
    \E s \in StatsSet :
        /\ clock \notin CompletionDays
        /\ (clock - 1) \in CompletionDays
        /\ (clock - 2) \notin CompletionDays
        /\ session[s].stats.streak = 1

\* The attempts of the user in the subject, as positions of experiment_runs.
AttemptsInSubject(subject) ==
    {k \in 1..Len(experiment_runs) :
        toLowerCase(experiments[experiment_runs[k].experiment_id].subject)
            = toLowerCase(subject)}

\* Every attempt of the subject is completed with a score of at least the accuracy.
AllCompletedAt(subject, min_accuracy) ==
    \A k \in AttemptsInSubject(subject) :
        /\ experiment_runs[k].status = "completed"
        /\ experiment_runs[k].score # NULL
        /\ experiment_runs[k].score >= min_accuracy

\* C13: a definition with criteria {subject, min_accuracy} gets its insert only when
\* every attempt the user ever made in the subject is completed with a score of at
\* least min_accuracy, and does get it when the user has such attempts and all are.
C13_MasteryAllOrNothing ==
    \A s \in Sessions :
        ChemistryWizard.id \in eval[s].evaluated =>
            LET c == ChemistryWizard.criteria
                granted == ChemistryWizard.id \in Range(eval[s].insertCalls)
            IN /\ granted => AllCompletedAt(c.subject, c.min_accuracy)
               /\ (AttemptsInSubject(c.subject) # {}
                      /\ AllCompletedAt(c.subject, c.min_accuracy)) => granted

\* Four attempts of the subject, all completed at 100: the definition was awarded.
C13_FourOfFour ==
    \E s \in Sessions :
        /\ eval[s].pc = "returned"
        /\ Cardinality(AttemptsInSubject(s_chemistry)) = 4
        /\ AllCompletedAt(s_chemistry, 100)
        /\ ChemistryWizard.name \in Range(eval[s].awardedBadgeNames)

\* What a text is once its case, its quotes and its extra white space are set aside:
\* the criterion texts and the experiment names, written out.
PlainText ==
    [c \in CriterionTexts |->
        IF c = <<"o","h","m","s","l","a","w">> THEN c
        ELSE IF c \in {s_titration} THEN s_titration
        ELSE IF c = <<"T","i","t","r","a","t","i","o","n"," "," ","L","A","B">>
        THEN <<"t","i","t","r","a","t","i","o","n"," ","l","a","b">>
        ELSE s_ohms_law]

PlainName ==
    [ohms |-> <<"o","h","m","s"," ","l","a","w"," ","l","a","b","o","r","a","t","o","r","y">>,
     ohms_plain |->
         <<"o","h","m","s"," ","l","a","w"," ","l","a","b","o","r","a","t","o","r","y">>,
     ohms_caps |-> s_ohms_law,
     titration |-> <<"a","c","i","d","-","b","a","s","e"," ","t","i","t","r","a","t","i","o","n">>,
     titration_padded |-> <<"t","i","t","r","a","t","i","o","n"," ","l","a","b">>,
     youngs |-> <<"y","o","u","n","g","s"," ","d","o","u","b","l","e"," ","s","l","i","t",
                  " ","e","x","p","e","r","i","m","e","n","t">>,
     colloid |-> <<"p","r","e","p","a","r","a","t","i","o","n"," ","o","f"," ",
                   "c","o","l","l","o","i","d","a","l"," ","s","o","l","u","t","i","o","n">>]

\* The first text occurs in the second.
OccursIn(part, whole) ==
    \E i \in 0..(Len(whole) - Len(part)) : \A j \in 1..Len(part) : whole[i + j] = part[j]

\* C14: a definition that asks for one completed attempt of a type gets its insert
\* exactly when the user has a completed attempt whose name contains the type, both
\* taken without regard to case, quotes, runs of white space and white space at the
\* ends; so texts that differ only in these match the same attempts.
C14_MatchIgnoresCaseQuotesSpaces ==
    \A s \in Sessions :
        (Len(badges) = 1 /\ badges[1].id = 9 /\ 9 \in eval[s].evaluated) =>
            (9 \in Range(eval[s].insertCalls)
                <=> \E k \in 1..Len(experiment_runs) :
                        /\ experiment_runs[k].status = "completed"
                        /\ OccursIn(PlainText[badges[1].criteria.experiment_type],
                                    PlainName[experiment_runs[k].experiment_id]))

\* The type "ohm's law" was matched by the one attempt of "OHM'S   LAW".
C14_QuotedMatchesCapitals ==
    \E s \in Sessions :
        /\ eval[s].pc = "returned"
        /\ badges = <<TypeCount(<<"o","h","m","'","s"," ","l","a","w">>)>>
        /\ Len(experiment_runs) = 1
        /\ experiment_runs[1].experiment_id = "ohms_caps"
        /\ "Specialist" \in Range(eval[s].awardedBadgeNames)

\* An evaluation of the seeded catalog for a user without badges whose one attempt is
\* completed with score 100 and whose XP is 120 has returned.
FirstCompletionDone(s) ==
    /\ badges = SeededBadges
    /\ eval[s].pc = "returned"
    /\ eval[s].prev = <<>>
    /\ eval[s].earnedBadgeIds = {}
    /\ eval[s].currentXP = 120
    /\ Len(experiment_runs) = 1
    /\ experiment_runs[1].status = "completed"
    /\ experiment_runs[1].score = 100

C16_CompletedAttemptIsIrrelevant ==
    \A s \in Sessions :
        (/\ eval[s].pc = "returned"
         /\ eval[s].clean
         /\ eval[s].prev # <<>>
         /\ eval[s].prev.clean
         /\ eval[s].prev.awarded = 0
         /\ eval[s].prev.currentXP = eval[s].currentXP)
            => eval[s].awardedBadgeNames = <<>>

\* C17: level monotonicity.  Whenever a completion flow writes the profile with an
\* XP that is not below the stored one, the level it writes with it, floor(xp/500)+1,
\* is not below the stored level.
C17_LevelMonotone ==
    [][profiles'.xp_points >= profiles.xp_points => profiles'.level >= profiles.level]_vars

\* C17 witness: a flow has written a higher XP and with it a higher level.
C17_HigherXpHigherLevel ==
    \E s \in Sessions :
        /\ session[s].pc = "badges"
        /\ profiles.xp_points = session[s].newXP
        /\ session[s].newXP > session[s].closureXP
        /\ profiles.level > Level(session[s].closureXP)

\* The XP values around the first two multiples of 500 and the level of each.
LevelBoundaries ==
    [xp \in {0, 499, 500, 999, 1000} |->
        CASE xp = 0 -> 1 [] xp = 499 -> 1 [] xp = 500 -> 2 [] xp = 999 -> 2 [] xp = 1000 -> 3]

\* C18: level boundaries.  In the completion flow of every page, the profile written
\* with an XP of 0, 499, 500, 999 or 1000 carries level 1, 1, 2, 2 or 3.
C18_LevelBoundaries ==
    \A s \in Sessions :
        (/\ session[s].page \in LevelPages
         /\ session[s].pc = "badges"
         /\ session[s].profile.xp_points = session[s].newXP
         /\ session[s].newXP \in DOMAIN LevelBoundaries)
            => session[s].profile.level = LevelBoundaries[session[s].newXP]

\* C18 witness: the colloidal solution page has written 1000 XP with level 3.
C18_ColloidWroteThousand ==
    \E s \in Sessions :
        /\ session[s].page = "colloid"
        /\ session[s].pc = "badges"
        /\ profiles = [xp_points |-> 1000, level |-> 3]
        /\ session[s].profile = profiles
        /\ session[s].closureXP = 850

\* The fields of a criteria value the evaluation reads.
KnownFields ==
    {"experiments_completed", "experiment_type", "completed", "accuracy_threshold",
     "xp_threshold", "subject", "min_accuracy"}

\* The criteria are absent, or carry none of the fields the evaluation reads.
UnknownShape(badge) ==
    IsNullCriteria(badge) \/ (DOMAIN badge.criteria) \cap KnownFields = {}

\* C19 as stated: in a call whose store calls all answer with data, a definition of
\* unknown shape (empty object, unknown fields only, no criteria at all) gets no
\* insert and is not returned, no error is caught, and every other definition the
\* caller does not hold is evaluated and gets its insert exactly when its criteria
\* are met.
C19_UnknownShapeIsHarmless ==
    \A s \in Sessions :
        eval[s].pc = "returned" =>
            /\ \A err \in eval[s].consoleErrors : err[1] # "Error in checkAndAwardBadges"
            /\ \A badge \in Range(badges) :
                   IF UnknownShape(badge)
                   THEN /\ badge.id \notin Range(eval[s].insertCalls)
                        /\ badge.name \notin Range(eval[s].awardedBadgeNames)
                   ELSE badge.id \notin eval[s].earnedBadgeIds =>
                            /\ badge.id \in eval[s].evaluated
                            /\ badge.id \in Range(eval[s].insertCalls)
                                 <=> ShouldAward(badge.criteria, eval[s].currentXP,
                                                 eval[s].completedExperiment,
                                                 eval[s].allRuns)

\* C20 as stated: when the evaluation a completion flow triggered has returned, every
\* store call of the run having answered without an error, each definition with an
\* xp_threshold that the stored XP has reached and that the user did not hold when
\* the evaluation read the earned badges is among the badges this evaluation granted.
C20_ThresholdGrantedAtCompletion ==
    \A s \in Sessions :
        (/\ session[s].pc = "badges"
         /\ eval[s].pc = "returned"
         /\ eval[s].clean
         /\ faults = 0)
            => \A badge \in Range(badges) :
                   (/\ ~IsNullCriteria(badge)
                    /\ Has(badge.criteria, "xp_threshold")
                    /\ profiles.xp_points >= badge.criteria.xp_threshold
                    /\ badge.id \notin eval[s].earnedBadgeIds)
                       => badge.name \in Range(eval[s].awardedBadgeNames)

\* C21: a step of checkAndAwardBadges leaves the badge definitions, the attempts and
\* the profile as they are, and never removes an earned-badge row: the rows of
\* user_badges only grow, so a badge once granted stays granted.
C21_EvaluationOnlyAddsBadges ==
    [][/\ badges' = badges
       /\ \A b \in BadgeIds : user_badges'[b] >= user_badges[b]
       /\ session' = session => (experiment_runs' = experiment_runs /\ profiles' = profiles)
      ]_vars

\* C21 witness: a later evaluation with 120 XP has returned, and the user still holds
\* the badge with the threshold of 500 XP that an earlier evaluation granted.
C21_KeptBelowThreshold ==
    \E s \in Sessions :
        /\ eval[s].pc = "returned"
        /\ eval[s].prev # <<>>
        /\ eval[s].currentXP = 120
        /\ LevelTwo \in Range(badges)
        /\ user_badges[LevelTwo.id] = 1
        /\ ~ShouldAward(LevelTwo.criteria, eval[s].currentXP, eval[s].completedExperiment,
                        eval[s].allRuns)

\* C22: a definition whose id is among the earned-badge ids the evaluation fetched is
\* skipped entirely: its criteria are not evaluated, no insert is issued for it and
\* its name is not returned, whatever its criteria and the attempts.
C22_EarnedIsSkipped ==
    \A s \in Sessions : \A badge \in Range(badges) :
        badge.id \in eval[s].earnedBadgeIds =>
            /\ badge.id \notin eval[s].evaluated
            /\ badge.id \notin Range(eval[s].insertCalls)
            /\ badge.name \notin Range(eval[s].awardedBadgeNames)

\* C22 witness: an evaluation has returned having skipped an earned definition, not
\* the first of the catalog, whose criteria are met.
C22_SkippedThoughDue ==
    \E s \in Sessions : \E k \in 2..Len(badges) :
        /\ eval[s].pc = "returned"
        /\ eval[s].clean
        /\ badges[k].id \in eval[s].earnedBadgeIds
        /\ ~IsNullCriteria(badges[k])
        /\ ShouldAward(badges[k].criteria, eval[s].currentXP, eval[s].completedExperiment,
                       eval[s].allRuns)

\* The completed attempts whose name, set in plain text, contains the plain type and
\* whose score is at least the accuracy.
AccurateAttemptsOfType(plainType, min_accuracy) ==
    {k \in 1..Len(experiment_runs) :
        /\ experiment_runs[k].status = "completed"
        /\ OccursIn(plainType, PlainName[experiment_runs[k].experiment_id])
        /\ experiment_runs[k].score # NULL
        /\ experiment_runs[k].score >= min_accuracy}

\* C23: a definition with criteria {experiment_type, experiments_completed = n,
\* min_accuracy = m} and no other field gets its insert exactly when at least n
\* completed attempts of the type have a score of at least m each; attempts with a
\* lower score, and the completion of an attempt of the type passed with the call, do
\* not count.
C23_CountOfAccurateAttempts ==
    \A s \in Sessions :
        (Len(badges) = 1 /\ badges[1].id = 15 /\ 15 \in eval[s].evaluated) =>
            (15 \in Range(eval[s].insertCalls)
                <=> Cardinality(AccurateAttemptsOfType(s_ohms_law,
                                                       badges[1].criteria.min_accuracy))
                        >= badges[1].criteria.experiments_completed)

\* C23 witness: three completed attempts of the type, two of them at the accuracy, the
\* call made with a completed attempt of the type: a count of 2 was awarded.
C23_TwoOfThreeAccurate ==
    \E s \in Sessions :
        /\ eval[s].pc = "returned"
        /\ badges = <<OhmsLawExpert(2)>>
        /\ Len(experiment_runs) = 3
        /\ Cardinality(AccurateAttemptsOfType(s_ohms_law, 85)) = 2
        /\ Cardinality(AccurateAttemptsOfType(s_ohms_law, 0)) = 3
        /\ eval[s].completedExperiment # undefined
        /\ "Ohm's Law Expert" \in Range(eval[s].awardedBadgeNames)

\* C24: every score a completion flow writes to an attempt is an integer from 0 to
\* 100, for every number of interactions and every added volume.
C24_ScoreInRange ==
    /\ \A k \in 1..Len(experiment_runs) :
           experiment_runs[k].status = "completed" => experiment_runs[k].score \in 0..100
    /\ \A s \in Sessions : session[s].score \in 0..100

\* C24 witness: one titration was completed with score 0 (far past the equivalence
\* point) and, after a reset, one with score 100.
C24_ZeroAndHundred ==
    /\ Len(experiment_runs) = 2
    /\ \A k \in 1..2 : /\ experiment_runs[k].experiment_id = "titration"
                        /\ experiment_runs[k].status = "completed"
    /\ experiment_runs[1].score = 0
    /\ experiment_runs[2].score = 100

\* C25: of the evaluations that run for the user at the same time, at most one
\* returns a given badge (and shows its toast); an evaluation whose insert met the
\* unique constraint does not return it.
C25_OneEvaluationReturnsIt ==
    \A badge \in Range(badges) :
        /\ Cardinality({s \in Sessions :
                            badge.name \in Range(eval[s].awardedBadgeNames)}) <= 1
        /\ \A s \in Sessions :
               <<"[Badge Award] Error awarding badge", "conflict", badge.id>>
                       \in eval[s].consoleErrors
                   => badge.name \notin Range(eval[s].awardedBadgeNames)

\* C25 witness: two evaluations read the earned badges before either inserted, both
\* issued the insert of the same badge with no store call failing; both have returned,
\* one with the badge and one, after the conflict, without it.
C25_OneOfTwoReturnedIt ==
    \E badge \in Range(badges) : \E s1 \in Sessions : \E s2 \in Sessions \ {s1} :
        /\ faults = 0
        /\ eval[s1].pc = "returned" /\ eval[s2].pc = "returned"
        /\ badge.id \notin eval[s1].earnedBadgeIds \cup eval[s2].earnedBadgeIds
        /\ badge.id \in Range(eval[s1].insertCalls) \cap Range(eval[s2].insertCalls)
        /\ badge.name \in Range(eval[s1].awardedBadgeNames)
        /\ badge.id \in eval[s2].insertFailed
        /\ badge.name \notin Range(eval[s2].awardedBadgeNames)

\* The completed attempts of a subject, of a type given in plain text, and all.
CompletedOfSubject(subject) ==
    {k \in AttemptsInSubject(subject) : experiment_runs[k].status = "completed"}
CompletedOfType(plainType) ==
    {k \in 1..Len(experiment_runs) :
        /\ experiment_runs[k].status = "completed"
        /\ OccursIn(plainType, PlainName[experiment_runs[k].experiment_id])}
CompletedOverall == {k \in 1..Len(experiment_runs) : experiment_runs[k].status = "completed"}

\* C26: one count is compared with experiments_completed: that of the type when the
\* criteria have an experiment_type (a subject beside it is not looked at), that of
\* the subject when they have a subject and no type, that of all completed attempts
\* when they have neither.
C26_OneCountByPrecedence ==
    \A s \in Sessions :
        (Len(badges) = 1 /\ badges[1].id \in 16..18 /\ badges[1].id \in eval[s].evaluated) =>
            LET criteria == badges[1].criteria
                count == IF "experiment_type" \in DOMAIN criteria
                         THEN Cardinality(CompletedOfType(s_titration))
                         ELSE IF "subject" \in DOMAIN criteria
                         THEN Cardinality(CompletedOfSubject(criteria.subject))
                         ELSE Cardinality(CompletedOverall)
            IN badges[1].id \in Range(eval[s].insertCalls)
                   <=> count >= criteria.experiments_completed

\* C26 witness: two completed titrations and no completed physics attempt: the count
\* of 2 of the type with the subject physics beside it was awarded.
C26_TypeCountedNotSubject ==
    \E s \in Sessions :
        /\ eval[s].pc = "returned"
        /\ badges = <<TypeAndSubjectCount(2)>>
        /\ Cardinality(CompletedOfType(s_titration)) = 2
        /\ CompletedOfSubject(s_physics) = {}
        /\ "Titration Physicist" \in Range(eval[s].awardedBadgeNames)

\* C27 as stated: a completion flow that has gone on to the profile update or to the
\* badge evaluation has its attempt marked completed in the store, with the score of
\* the flow: after a failed update of the attempt no XP is added and no badge is
\* evaluated.
C27_XpOnlyAfterAttemptCompleted ==
    \A s \in Sessions :
        session[s].pc \in {"updateProfile", "badges"} =>
            /\ experiment_runs[session[s].runId].status = "completed"
            /\ experiment_runs[session[s].runId].score = session[s].score

\* C28: a definition with criteria {subject, min_accuracy}, whatever the accuracy, gets
\* no insert and is not returned when the user has no attempt of the subject.
C28_NoAttemptNoMastery ==
    \A s \in Sessions : \A badge \in Range(badges) :
        (/\ badge.id \in {ChemistryWizard.id, 19}
         /\ AttemptsInSubject(badge.criteria.subject) = {})
            => /\ badge.id \notin Range(eval[s].insertCalls)
               /\ badge.name \notin Range(eval[s].awardedBadgeNames)

\* C28 witness: the mastery of chemistry at accuracy 0 was evaluated for a user whose
\* attempts are all of physics, and the evaluation returned nothing.
C28_PhysicsOnly ==
    \E s \in Sessions :
        /\ eval[s].pc = "returned"
        /\ badges = <<ChemistryMastery(0)>>
        /\ 19 \in eval[s].evaluated
        /\ Len(experiment_runs) = 2
        /\ AttemptsInSubject(s_chemistry) = {}
        /\ eval[s].awardedBadgeNames = <<>>

\* The attempts that are completed and carry a completion time, in their order.
TimedCompletions ==
    SelectSeq(experiment_runs,
              LAMBDA r : r.status = "completed" /\ r.completed_at # NULL)

\* C29: calculateStreak returns for every list of attempts, after at most one step
\* of its loop per day with a completion and one more: its result is between 0 and
\* the number of distinct days that carry a completed attempt, and it is the result
\* for the list without the attempts that are in progress, abandoned, or completed
\* without a completion time.
C29_StreakBoundedByDays ==
    \A s \in StatsSet :
        /\ session[s].stats.streak \in 0..Cardinality(CompletionDays)
        /\ session[s].stats.streak = calculateStreak(TimedCompletions, clock)

\* C29 witness: of four attempts one is completed today and the three others are in
\* progress, abandoned and completed without a completion time: the streak is 1.
C29_OneDayAmongOthers ==
    \E s \in StatsSet :
        /\ Len(experiment_runs) = 4
        /\ CompletionDays = {clock}
        /\ Len(TimedCompletions) = 1
        /\ {experiment_runs[k].status : k \in 1..4} = {"completed", "in_progress", "abandoned"}
        /\ \E k \in 1..4 : /\ experiment_runs[k].status = "completed"
                            /\ experiment_runs[k].completed_at = NULL
        /\ session[s].stats.streak = 1

\* C30: for a profile whose level is floor(xp_points / 500) + 1, the 'XP to next
\* level' the Dashboard and the Profile page show is level * 500 - xp_points and lies
\* in 1..500.
C30_XpToNextLevel ==
    \A s \in Sessions :
        session[s].page \in {"dashboard", "profile"} =>
            LET profile == session[s].profile
            IN /\ profile.level = (profile.xp_points \div 500) + 1
               /\ xpToNextLevel(profile) = profile.level * 500 - profile.xp_points
               /\ xpToNextLevel(profile) \in 1..500

\* C30 witness: the Dashboard shows 400 XP to the next level for a user of level 2
\* with 600 XP.
C30_FourHundredToGo ==
    \E s \in Sessions :
        /\ session[s].page = "dashboard"
        /\ session[s].pc = "idle"
        /\ session[s].profile = [xp_points |-> 600, level |-> 2]
        /\ xpToNextLevel(session[s].profile) = 400

====
